---- MODULE Spec2Model ----
(***************************************************************************)
(* Model of the Abaqus keyword parser _read_input of inpToXMP.py.          *)
(*                                                                         *)
(* A record is a sequence of fields; a field is a sequence of one-letter   *)
(* strings, so that startswith, lower, split, strip, int and float are     *)
(* computed letter by letter as the Python code computes them.             *)
(*                                                                         *)
(* Spec is the parser alone, entered as _inp_to_XML enters it; SpecCli is  *)
(* the command: its arguments, the output file, the parser, the writer.    *)
(***************************************************************************)
EXTENDS Integers, Sequences, FiniteSets, TLC

\* ------------------------------------------------------------------ bounds
\* number of records of the input stream
MaxRecords == 3

\* ------------------------------------------------------- Python values
None == <<"None">>
Unbound == <<"Unbound">>
\* the loop variable before the first record
NoRecord == <<Unbound>>

\* class State
StInit == "Init"
StUnknown == "Unknown"
StInvalid == "Invalid"
StReadHeading == "ReadHeading"
StReadNodes == "ReadNodes"
StReadCells == "ReadCells"
StReadNodeSet == "ReadNodeSet"
StReadCellSet == "ReadCellSet"
StReadSurfaceSet == "ReadSurfaceSet"

State == {StInit, StUnknown, StInvalid, StReadHeading, StReadNodes, StReadCells,
          StReadNodeSet, StReadCellSet, StReadSurfaceSet}

\* ------------------------------------------------------- str methods
UpperLetters == <<"A","B","C","D","E","F","G","H","I","J","K","L","M",
                  "N","O","P","Q","R","S","T","U","V","W","X","Y","Z">>
LowerLetters == <<"a","b","c","d","e","f","g","h","i","j","k","l","m",
                  "n","o","p","q","r","s","t","u","v","w","x","y","z">>
DigitLetters == <<"0","1","2","3","4","5","6","7","8","9">>

LowerChar(c) ==
    IF \E i \in 1..26 : UpperLetters[i] = c
    THEN LowerLetters[CHOOSE i \in 1..26 : UpperLetters[i] = c]
    ELSE c

\* str.lower()
StrLower(s) == [i \in 1..Len(s) |-> LowerChar(s[i])]

\* str.startswith(p)
StartsWith(s, p) == Len(s) >= Len(p) /\ SubSeq(s, 1, Len(p)) = p

\* str.strip()
RECURSIVE LStrip(_)
LStrip(s) == IF s # <<>> /\ Head(s) = " " THEN LStrip(Tail(s)) ELSE s
RECURSIVE RStrip(_)
RStrip(s) == IF s # <<>> /\ s[Len(s)] = " " THEN RStrip(SubSeq(s, 1, Len(s) - 1)) ELSE s
StrStrip(s) == RStrip(LStrip(s))

\* str.split('='): the pieces between the separators, at least one piece
RECURSIVE SplitFrom(_, _, _)
SplitFrom(s, sep, cur) ==
    IF s = <<>> THEN <<cur>>
    ELSE IF Head(s) = sep THEN <<cur>> \o SplitFrom(Tail(s), sep, <<>>)
    ELSE SplitFrom(Tail(s), sep, Append(cur, Head(s)))
StrSplit(s, sep) == SplitFrom(s, sep, <<>>)

IsDigit(c) == \E i \in 1..10 : DigitLetters[i] = c
DigitVal(c) == (CHOOSE i \in 1..10 : DigitLetters[i] = c) - 1

RECURSIVE DigitsVal(_, _)
DigitsVal(s, acc) == IF s = <<>> THEN acc ELSE DigitsVal(Tail(s), 10 * acc + DigitVal(Head(s)))

AllDigits(s) == s # <<>> /\ \A i \in 1..Len(s) : IsDigit(s[i])

HasSign(s) == s # <<>> /\ Head(s) \in {"-", "+"}
Unsigned(s) == IF HasSign(s) THEN Tail(s) ELSE s

\* int(s): whether the conversion succeeds, and its value
IsInt(s) == AllDigits(Unsigned(StrStrip(s)))
IntOf(s) ==
    LET t == StrStrip(s)
        v == DigitsVal(Unsigned(t), 0)
    IN IF Head(t) = "-" THEN 0 - v ELSE v

\* float(s) for decimal literals: sign, digits, at most one point.  The value
\* is kept exactly, as mantissa m and number e of decimals (m * 10^-e) with
\* trailing zero decimals removed, so that equal floats are equal values.
RECURSIVE Normalize(_, _)
Normalize(m, e) == IF e > 0 /\ m % 10 = 0 THEN Normalize(m \div 10, e - 1) ELSE <<m, e>>

IsFloat(s) ==
    LET t == Unsigned(StrStrip(s))
        p == StrSplit(t, ".")
    IN /\ Len(p) \in {1, 2}
       /\ \A i \in 1..Len(p) : \A j \in 1..Len(p[i]) : IsDigit(p[i][j])
       /\ \E i \in 1..Len(p) : p[i] # <<>>
FloatOf(s) ==
    LET t == StrStrip(s)
        p == StrSplit(Unsigned(t), ".")
        frac == IF Len(p) = 2 THEN p[2] ELSE <<>>
        m == DigitsVal(p[1] \o frac, 0)
    IN Normalize(IF Head(t) = "-" THEN 0 - m ELSE m, Len(frac))

\* ------------------------------------------------------- dict helpers
\* SetDefault that assigns a fresh set() without the "not in" test
SetDefaultReset(d, k) == [x \in DOMAIN d \cup {k} |-> IF x = k THEN {} ELSE d[x]]
\* d[k] = set() when k is not yet a key
SetDefault(d, k) == IF k \in DOMAIN d THEN d ELSE d @@ (k :> {})
\* Store that keeps the value a key already has
StoreFirstWins(d, k, v) == [x \in DOMAIN d \cup {k} |-> IF x \in DOMAIN d THEN d[x] ELSE v]
\* d[k] = v
Store(d, k, v) == [x \in DOMAIN d \cup {k} |-> IF x = k THEN v ELSE d[x]]
\* d[k].update(ids)
Update(d, k, ids) == [d EXCEPT ![k] = @ \cup ids]


\* ------------------------------------------------------- input records
\* str(i) of an integer, used to write the numeric fields of the input
RECURSIVE NatStr(_)
NatStr(n) == IF n < 10 THEN <<DigitLetters[n + 1]>>
             ELSE Append(NatStr(n \div 10), DigitLetters[(n % 10) + 1])
IntStr(i) == IF i < 0 THEN <<"-">> \o NatStr(0 - i) ELSE NatStr(i)

\* a data line whose fields are all integers
IntRow(row) == [i \in 1..Len(row) |-> IntStr(row[i])]

IntRows == { <<1, 2, 3>>, <<1, 10, 2>>, <<2, 3, 1, 2>>, <<3, 1, 0>>, <<5, 1, -2>> }

EmptyField == <<>>
WordX == <<"x">>
HalfField == <<"0", ".", "5">>

DataRecords ==
    { IntRow(row) : row \in IntRows }
    \cup { <<IntStr(1), WordX>>,
           <<IntStr(1), IntStr(2), EmptyField>>,
           <<IntStr(2), HalfField, IntStr(0)>> }

CommentField == <<"*", "*", "c">>
KwHeadingField == <<"*", "H", "e", "a", "d", "i", "n", "g">>
KwPartField == <<"*", "P", "a", "r", "t">>
KwEndPartField == <<"*", "E", "n", "d", " ", "P", "a", "r", "t">>
KwNodeField == <<"*", "N", "o", "d", "e">>
KwElementField == <<"*", "E", "l", "e", "m", "e", "n", "t">>
KwNsetField == <<"*", "N", "s", "e", "t">>
KwElsetField == <<"*", "E", "l", "s", "e", "t">>
KwSurfaceField == <<"*", "S", "u", "r", "f", "a", "c", "e">>
KwStepField == <<"*", "S", "t", "e", "p">>

OptNameP == <<"n", "a", "m", "e", "=", "P">>
OptNameS == <<"n", "a", "m", "e", "=", "S">>
OptNsetA == <<"N", "s", "e", "t", "=", "A">>
OptNsetBare == <<"n", "s", "e", "t">>
OptElsetB == <<"e", "l", "s", "e", "t", "=", "B">>
OptElsetBSpace == <<"E", "l", "s", "e", "t", "=", "B", " ">>
OptElsetEmpty == <<"e", "l", "s", "e", "t", "=">>
OptTypeT == <<"t", "y", "p", "e", "=", "t">>
OptGenerate == <<"G", "e", "n", "e", "r", "a", "t", "e">>

SetA == <<"A">>
SetB == <<"B">>
SetS == <<"S">>
EmptyName == <<>>

KeywordRecords ==
    { <<KwHeadingField>>,
      <<KwPartField, OptNameP>>, <<KwPartField>>,
      <<KwEndPartField>>,
      <<KwNodeField>>, <<KwNodeField, OptNsetA>>, <<KwNodeField, OptNsetA, WordX>>,
      <<KwNodeField, OptNsetBare>>,
      <<KwElementField, OptTypeT, OptElsetBSpace>>, <<KwElementField, OptTypeT>>,
      <<KwElementField, OptElsetEmpty>>,
      <<KwNsetField, OptNsetA>>, <<KwNsetField, OptNsetA, OptGenerate>>,
      <<KwNsetField, OptNameS>>,
      <<KwElsetField, OptElsetB>>, <<KwElsetField, OptElsetB, OptGenerate>>,
      <<KwSurfaceField, OptNameS>>,
      <<KwStepField>> }

\* the records the tokenizing reader can hand to the parser
Records == DataRecords \cup KeywordRecords \cup { <<CommentField>>, <<>> }

\* classification of a record, lines 153-155 and 193
IsComment(r) == r # <<>> /\ StartsWith(r[1], <<"*", "*">>)
IsKeyword(r) == r # <<>> /\ ~IsComment(r) /\ StartsWith(r[1], <<"*">>)
IsData(r) == r # <<>> /\ ~StartsWith(r[1], <<"*">>)
KeywordIs(r, word) == IsKeyword(r) /\ StrLower(r[1]) = word

WordHeading == <<"*", "h", "e", "a", "d", "i", "n", "g">>
WordPart == <<"*", "p", "a", "r", "t">>
WordEndPart == <<"*", "e", "n", "d", " ", "p", "a", "r", "t">>
WordNode == <<"*", "n", "o", "d", "e">>
WordElement == <<"*", "e", "l", "e", "m", "e", "n", "t">>
WordNset == <<"*", "n", "s", "e", "t">>
WordElset == <<"*", "e", "l", "s", "e", "t">>
WordSurface == <<"*", "s", "u", "r", "f", "a", "c", "e">>
KnownWords == {WordHeading, WordPart, WordEndPart, WordNode, WordElement,
               WordNset, WordElset, WordSurface}


KeyNset == <<"n", "s", "e", "t">>
KeyElset == <<"e", "l", "s", "e", "t">>
KeyName == <<"n", "a", "m", "e">>
KeyType == <<"t", "y", "p", "e">>
KeyGenerate == <<"g", "e", "n", "e", "r", "a", "t", "e">>

\* ------------------------------------------------------- keyword helpers
\* Each helper gives: raised (an exception leaves the helper), the values it
\* returns, and the set table after its in-place insertions.

\* _read_heading
ReadHeading(l) == StrStrip(l[1])

\* _read_part_name: l[1] and part_names[1] are indexed after the length
\* checks have only printed
ReadPartNameRaises(l) == Len(l) < 2 \/ Len(StrSplit(l[2], "=")) < 2
ReadPartName(l) == StrStrip(StrSplit(l[2], "=")[2])

\* _create_node_list_entry
CreateNodeListEntry(sets, l) ==
    IF Len(l) = 2
    THEN LET set_data == StrSplit(l[2], "=")
         IN IF Len(set_data) # 2
            THEN [raised |-> TRUE, name |-> None, sets |-> sets]
            ELSE IF StrLower(set_data[1]) = KeyNset
                 THEN [raised |-> FALSE, name |-> set_data[2],
                       sets |-> SetDefault(sets, set_data[2])]
                 ELSE [raised |-> FALSE, name |-> None, sets |-> sets]
    ELSE [raised |-> FALSE, name |-> None, sets |-> sets]

\* the loop of _read_element_keywords over l[1:]
RECURSIVE ElementKeys(_, _)
ElementKeys(keys, acc) ==
    IF keys = <<>> \/ acc.raised THEN acc
    ELSE LET key_parts == StrSplit(Head(keys), "=")
             key_name == StrStrip(StrLower(key_parts[1]))
         IN IF key_name = KeyType
            THEN IF Len(key_parts) < 2 THEN [acc EXCEPT !.raised = TRUE]
                 ELSE ElementKeys(Tail(keys),
                                  [acc EXCEPT !.type = StrStrip(StrLower(key_parts[2]))])
            ELSE IF key_name = KeyElset
            THEN IF Len(key_parts) < 2 THEN [acc EXCEPT !.raised = TRUE]
                 ELSE ElementKeys(Tail(keys), [acc EXCEPT !.name = StrStrip(key_parts[2])])
            ELSE ElementKeys(Tail(keys), acc)

\* "if element_set_name:" is false for None and for the empty string
Truthy(name) == name # None /\ name # <<>>

\* _read_element_keywords
ReadElementKeywords(sets, l) ==
    LET k == ElementKeys(Tail(l), [raised |-> FALSE, type |-> None, name |-> None])
    IN [raised |-> k.raised, type |-> k.type, name |-> k.name,
        sets |-> IF ~k.raised /\ Truthy(k.name) THEN SetDefault(sets, k.name) ELSE sets]

\* the generate flag of *nset and *elset: None unless the third of exactly
\* three fields is "generate"
GenerateFlag(l) == IF Len(l) = 3 /\ StrLower(l[3]) = KeyGenerate THEN "True" ELSE "None"

\* _read_nset_keywords
ReadNsetKeywords(sets, l) ==
    IF Len(l) < 2 THEN [raised |-> TRUE, name |-> None, generate |-> "None", sets |-> sets]
    ELSE LET set_data == StrSplit(l[2], "=")
         IN IF Len(set_data) # 2 \/ StrLower(set_data[1]) # KeyNset
            THEN [raised |-> TRUE, name |-> None, generate |-> "None", sets |-> sets]
            ELSE [raised |-> FALSE, name |-> set_data[2], generate |-> GenerateFlag(l),
                  sets |-> SetDefault(sets, set_data[2])]

\* _read_elset_keywords
ReadElsetKeywords(sets, l) ==
    IF Len(l) < 2 THEN [raised |-> TRUE, name |-> None, generate |-> "None", sets |-> sets]
    ELSE LET set_data == StrSplit(l[2], "=")
         IN IF Len(set_data) # 2 \/ StrLower(set_data[1]) # KeyElset
            THEN [raised |-> TRUE, name |-> None, generate |-> "None", sets |-> sets]
            ELSE [raised |-> FALSE, name |-> set_data[2], generate |-> GenerateFlag(l),
                  sets |-> SetDefault(sets, set_data[2])]

\* _read_surface_keywords
ReadSurfaceKeywords(sets, l) ==
    IF Len(l) < 2 THEN [raised |-> TRUE, name |-> None, generate |-> "None", sets |-> sets]
    ELSE LET surface_data == StrSplit(l[2], "=")
         IN IF Len(surface_data) # 2 \/ StrLower(surface_data[1]) # KeyName
            THEN [raised |-> TRUE, name |-> None, generate |-> "None", sets |-> sets]
            ELSE [raised |-> FALSE, name |-> surface_data[2], generate |-> "False",
                  sets |-> SetDefault(sets, surface_data[2])]

\* ------------------------------------------------------- data-line helpers
\* list(range(a, b, step)) for step # 0
RECURSIVE PyRange(_, _, _)
PyRange(a, b, step) ==
    IF (step > 0 /\ a < b) \/ (step < 0 /\ a > b)
    THEN <<a>> \o PyRange(a + step, b, step)
    ELSE <<>>

SeqToSet(q) == { q[i] : i \in 1..Len(q) }

\* "if l[-1] == '': l.pop(-1)"
PopTrailingEmpty(l) == IF l[Len(l)] = <<>> THEN SubSeq(l, 1, Len(l) - 1) ELSE l

\* the generate branch of a set data line: the unpacking needs three fields,
\* int() needs integers and range() a non-zero step
GenerateOk(l) ==
    /\ Len(l) = 3
    /\ \A i \in 1..3 : IsInt(l[i])
    /\ IntOf(l[3]) # 0
\* GenerateRange without the append of the endpoint
GenerateRangeExclusive(l) ==
    PyRange(IntOf(l[1]) - 1, IntOf(l[2]) - 1, IntOf(l[3]))
GenerateRange(l) ==
    Append(PyRange(IntOf(l[1]) - 1, IntOf(l[2]) - 1, IntOf(l[3])), IntOf(l[2]) - 1)

\* the explicit branch of a set data line, on the list after the pop
ExplicitOk(l) == \A i \in 1..Len(l) : IsInt(l[i])
ExplicitRange(l) == [i \in 1..Len(l) |-> IntOf(l[i]) - 1]

\* SetLine that adds the ids one by one, so that the fields before a bad
\* token have been added when the exception is caught
RECURSIVE LeadingInts(_)
LeadingInts(l) ==
    IF l = <<>> \/ ~IsInt(Head(l)) THEN {}
    ELSE {IntOf(Head(l)) - 1} \cup LeadingInts(Tail(l))
SetLineLenient(gen, sets, name, l) ==
    IF gen = "True"
    THEN IF GenerateOk(l) /\ name \in DOMAIN sets
         THEN [ok |-> TRUE, ids |-> SeqToSet(GenerateRange(l))]
         ELSE [ok |-> FALSE, ids |-> {}]
    ELSE IF name \in DOMAIN sets
         THEN [ok |-> TRUE, ids |-> LeadingInts(PopTrailingEmpty(l))]
         ELSE [ok |-> FALSE, ids |-> {}]

\* the try block of ReadNodeSet / ReadCellSet: ok is false when an exception
\* is caught, ids is the list handed to update()
SetLine(gen, sets, name, l) ==
    IF gen = "True"
    THEN IF GenerateOk(l) /\ name \in DOMAIN sets
         THEN [ok |-> TRUE, ids |-> SeqToSet(GenerateRange(l))]
         ELSE [ok |-> FALSE, ids |-> {}]
    ELSE IF ExplicitOk(PopTrailingEmpty(l)) /\ name \in DOMAIN sets
         THEN [ok |-> TRUE, ids |-> SeqToSet(ExplicitRange(PopTrailingEmpty(l)))]
         ELSE [ok |-> FALSE, ids |-> {}]

\* a node line: int(l[0]) and float(c) for the rest
NodeLineOk(l) == IsInt(l[1]) /\ \A i \in 2..Len(l) : IsFloat(l[i])
NodeId(l) == IntOf(l[1]) - 1
NodeCoords(l) == [i \in 1..(Len(l) - 1) |-> FloatOf(l[i + 1])]

\* an element line: int(l[0]) and int(v) for the rest
CellLineOk(l) == \A i \in 1..Len(l) : IsInt(l[i])
CellId(l) == IntOf(l[1]) - 1
\* CellConnectivity that keeps the 1-based references
CellConnectivityOneBased(l) == [i \in 1..(Len(l) - 1) |-> IntOf(l[i + 1])]
CellConnectivity(l) == [i \in 1..(Len(l) - 1) |-> IntOf(l[i + 1]) - 1]


\* ------------------------------------------------------- state
VARIABLES
    rec,              \* the record input_file yields to the loop
    l,                \* the loop variable, after any pop of a trailing field
    state,            \* the parse state
    nodes,            \* node id -> coordinates
    elems,            \* cell id -> connectivity
    node_sets,        \* name -> set of node ids
    cell_sets,        \* name -> set of cell ids
    surface_sets,     \* name -> set of field tuples
    node_set_name,
    cell_set_name,
    surface_set_name,
    generate,         \* "None", "True" or "False"
    model_name,
    part_name,
    cell_type,
    pc,               \* "start", "parsing", "returned", "raised" or "done"
    result,           \* the tuple _read_input returns
    nread,            \* number of records consumed
    prevState,        \* history: the parse state before the last record
    endPart,          \* history: "no", "last" or "earlier" *end part keyword
    kw,               \* history: the last keyword record
    log,              \* history: the node and element lines stored, in order
    names,            \* args['names'], the positional arguments
    disk,             \* the file at the output path
    outcome,          \* what the command returned or raised, OutNone while it runs
    afterParseError   \* history: the previous conversion ended in a parse error

tables == <<nodes, elems, node_sets, cell_sets, surface_sets>>
actives == <<node_set_name, cell_set_name, surface_set_name, generate>>
labels == <<model_name, part_name, cell_type>>
vars == <<rec, l, state, nodes, elems, node_sets, cell_sets, surface_sets,
          node_set_name, cell_set_name, surface_set_name, generate,
          model_name, part_name, cell_type, pc, result, nread, prevState, endPart,
          kw, log, names, disk, outcome, afterParseError>>
io == <<names, disk, outcome, afterParseError>>

EmptyDict == <<>>

\* paths: the input file that exists, one that does not, the output path
InPath == "in.inp"
MissingPath == "missing.inp"
OutPath == "out.xml"
EmptyPath == ""
InputFiles == {InPath}

\* the output path: no file, a file that was there before, the file open(.., "w+") leaves
NoFile == [exists |-> FALSE, lines |-> <<>>]
OldFile == [exists |-> TRUE,
            lines |-> <<[tag |-> "old", n |-> <<>>, coords |-> <<>>, refs |-> <<>>]>>]
NewFile == [exists |-> TRUE, lines |-> <<>>]

\* results and exceptions of the command
OutNone == ""
OutHelp == "print_help"
OutNoInput == "no input name"
OutNoOutput == "no output name"
OutNotFound == "FileNotFoundError"
OutExists == "Not removing an existed file:"
OutTested == "The XML file is created and tested."
ErrIndex == "IndexError"
ErrMesh == "fe.Mesh raised"

Init ==
    /\ rec = NoRecord
    /\ l = NoRecord
    /\ state = StInit
    /\ nodes = EmptyDict
    /\ elems = EmptyDict
    /\ node_sets = EmptyDict
    /\ cell_sets = EmptyDict
    /\ surface_sets = EmptyDict
    /\ node_set_name = None
    /\ cell_set_name = Unbound
    /\ surface_set_name = Unbound
    /\ generate = "Unbound"
    /\ model_name = Unbound
    /\ part_name = Unbound
    /\ cell_type = Unbound
    /\ pc = "parsing"
    /\ result = Unbound
    /\ nread = 0
    /\ prevState = StInit
    /\ endPart = "no"
    /\ kw = NoRecord
    /\ log = <<>>
    /\ names = <<InPath, OutPath>>
    /\ disk = NewFile
    /\ outcome = OutNone
    /\ afterParseError = FALSE

\* "for l in input_file": the next record r is bound to l
Fetch(r) ==
    /\ pc = "parsing"
    /\ nread < MaxRecords
    /\ nread' = nread + 1
    /\ rec' = r
    /\ prevState' = state
    /\ result' = result
    /\ kw' = IF IsKeyword(r) THEN r ELSE kw
    /\ log' = IF IsData(r) /\ state = StReadNodes /\ NodeLineOk(r)
              THEN Append(log, [kind |-> "node", line |-> r])
              ELSE IF IsData(r) /\ state = StReadCells /\ CellLineOk(r)
              THEN Append(log, [kind |-> "cell", line |-> r])
              ELSE log
    /\ UNCHANGED io

\* a keyword other than *end part has been read
AfterKeyword == IF endPart = "no" THEN "no" ELSE "earlier"

\* line 151, 153: l[0] of an empty record
EmptyRecord(r) ==
    /\ Fetch(r)
    /\ r = <<>>
    /\ l' = r
    /\ pc' = "raised"
    /\ UNCHANGED <<state, tables, actives, labels, endPart>>

\* Comment taken as a keyword: "*" is tested before "**"
CommentAsKeyword(r) ==
    /\ Fetch(r)
    /\ IsComment(r)
    /\ l' = r
    /\ state' = StUnknown
    /\ UNCHANGED <<tables, actives, labels, pc, endPart>>

\* lines 153-154
Comment(r) ==
    /\ Fetch(r)
    /\ IsComment(r)
    /\ l' = r
    /\ UNCHANGED <<state, tables, actives, labels, pc, endPart>>

\* lines 156-159
KwHeading(r) ==
    /\ Fetch(r)
    /\ KeywordIs(r, WordHeading)
    /\ l' = r
    /\ state' = StReadHeading
    /\ endPart' = AfterKeyword
    /\ UNCHANGED <<tables, actives, labels, pc>>

\* KwPart without the reset of line 156
KwPartKeepsState(r) ==
    /\ Fetch(r)
    /\ KeywordIs(r, WordPart)
    /\ l' = r
    /\ state' = state
    /\ endPart' = AfterKeyword
    /\ IF ReadPartNameRaises(r)
       THEN pc' = "raised" /\ part_name' = part_name
       ELSE pc' = pc /\ part_name' = ReadPartName(r)
    /\ UNCHANGED <<tables, actives, model_name, cell_type>>

\* lines 156, 161-162
KwPart(r) ==
    /\ Fetch(r)
    /\ KeywordIs(r, WordPart)
    /\ l' = r
    /\ state' = StUnknown
    /\ endPart' = AfterKeyword
    /\ IF ReadPartNameRaises(r)
       THEN pc' = "raised" /\ part_name' = part_name
       ELSE pc' = pc /\ part_name' = ReadPartName(r)
    /\ UNCHANGED <<tables, actives, model_name, cell_type>>

\* KwEndPart without its branch: the keyword falls through as unrecognised
KwEndPartAsUnknown(r) ==
    /\ Fetch(r)
    /\ KeywordIs(r, WordEndPart)
    /\ l' = r
    /\ state' = StUnknown
    /\ endPart' = "last"
    /\ UNCHANGED <<tables, actives, labels, pc>>

\* lines 156, 164-165
KwEndPart(r) ==
    /\ Fetch(r)
    /\ KeywordIs(r, WordEndPart)
    /\ l' = r
    /\ state' = StInvalid
    /\ endPart' = "last"
    /\ UNCHANGED <<tables, actives, labels, pc>>

\* lines 156, 167-169
KwNode(r) ==
    /\ Fetch(r)
    /\ KeywordIs(r, WordNode)
    /\ l' = r
    /\ endPart' = AfterKeyword
    /\ LET e == CreateNodeListEntry(node_sets, r)
       IN IF e.raised
          THEN /\ pc' = "raised"
               /\ state' = StUnknown
               /\ UNCHANGED <<node_sets, node_set_name>>
          ELSE /\ pc' = pc
               /\ state' = StReadNodes
               /\ node_sets' = e.sets
               /\ node_set_name' = e.name
    /\ UNCHANGED <<nodes, elems, cell_sets, surface_sets, cell_set_name,
                   surface_set_name, generate, labels>>

\* lines 156, 171-173
KwElement(r) ==
    /\ Fetch(r)
    /\ KeywordIs(r, WordElement)
    /\ l' = r
    /\ endPart' = AfterKeyword
    /\ LET e == ReadElementKeywords(cell_sets, r)
       IN IF e.raised
          THEN /\ pc' = "raised"
               /\ state' = StUnknown
               /\ UNCHANGED <<cell_sets, cell_set_name, cell_type>>
          ELSE /\ pc' = pc
               /\ state' = StReadCells
               /\ cell_sets' = e.sets
               /\ cell_set_name' = e.name
               /\ cell_type' = e.type
    /\ UNCHANGED <<nodes, elems, node_sets, surface_sets, node_set_name,
                   surface_set_name, generate, model_name, part_name>>

\* *nset without the reset of line 69: the generate flag of an earlier set
\* keyword stays when this one declares none
KwNsetSticky(r) ==
    /\ Fetch(r)
    /\ KeywordIs(r, WordNset)
    /\ l' = r
    /\ endPart' = AfterKeyword
    /\ LET e == ReadNsetKeywords(node_sets, r)
       IN IF e.raised
          THEN /\ pc' = "raised"
               /\ state' = StUnknown
               /\ UNCHANGED <<node_sets, node_set_name, generate>>
          ELSE /\ pc' = pc
               /\ state' = StReadNodeSet
               /\ node_sets' = e.sets
               /\ node_set_name' = e.name
               /\ generate' = IF e.generate = "True" THEN "True" ELSE generate
    /\ UNCHANGED <<nodes, elems, cell_sets, surface_sets, cell_set_name,
                   surface_set_name, labels>>

\* lines 156, 175-177
KwNset(r) ==
    /\ Fetch(r)
    /\ KeywordIs(r, WordNset)
    /\ l' = r
    /\ endPart' = AfterKeyword
    /\ LET e == ReadNsetKeywords(node_sets, r)
       IN IF e.raised
          THEN /\ pc' = "raised"
               /\ state' = StUnknown
               /\ UNCHANGED <<node_sets, node_set_name, generate>>
          ELSE /\ pc' = pc
               /\ state' = StReadNodeSet
               /\ node_sets' = e.sets
               /\ node_set_name' = e.name
               /\ generate' = e.generate
    /\ UNCHANGED <<nodes, elems, cell_sets, surface_sets, cell_set_name,
                   surface_set_name, labels>>

\* lines 156, 179-183
KwElset(r) ==
    /\ Fetch(r)
    /\ KeywordIs(r, WordElset)
    /\ l' = r
    /\ endPart' = AfterKeyword
    /\ LET e == ReadElsetKeywords(cell_sets, r)
       IN IF e.raised
          THEN /\ pc' = "raised"
               /\ state' = StUnknown
               /\ UNCHANGED <<cell_sets, cell_set_name, generate>>
          ELSE /\ pc' = pc
               /\ state' = StReadCellSet
               /\ cell_sets' = e.sets
               /\ cell_set_name' = e.name
               /\ generate' = e.generate
    /\ UNCHANGED <<nodes, elems, node_sets, surface_sets, node_set_name,
                   surface_set_name, labels>>

\* lines 156, 185-187
KwSurface(r) ==
    /\ Fetch(r)
    /\ KeywordIs(r, WordSurface)
    /\ l' = r
    /\ endPart' = AfterKeyword
    /\ LET e == ReadSurfaceKeywords(surface_sets, r)
       IN IF e.raised
          THEN /\ pc' = "raised"
               /\ state' = StUnknown
               /\ UNCHANGED <<surface_sets, surface_set_name, generate>>
          ELSE /\ pc' = pc
               /\ state' = StReadSurfaceSet
               /\ surface_sets' = e.sets
               /\ surface_set_name' = e.name
               /\ generate' = e.generate
    /\ UNCHANGED <<nodes, elems, node_sets, cell_sets, node_set_name,
                   cell_set_name, labels>>

\* KwUnknown that only warns: neither line 156 nor line 191 assigns the state
KwUnknownKeepsState(r) ==
    /\ Fetch(r)
    /\ IsKeyword(r)
    /\ StrLower(r[1]) \notin KnownWords
    /\ l' = r
    /\ state' = state
    /\ endPart' = AfterKeyword
    /\ UNCHANGED <<tables, actives, labels, pc>>

\* lines 156, 189-191
KwUnknown(r) ==
    /\ Fetch(r)
    /\ IsKeyword(r)
    /\ StrLower(r[1]) \notin KnownWords
    /\ l' = r
    /\ state' = StUnknown
    /\ endPart' = AfterKeyword
    /\ UNCHANGED <<tables, actives, labels, pc>>


\* lines 194-195
DataHeading(r) ==
    /\ Fetch(r)
    /\ IsData(r)
    /\ state = StReadHeading
    /\ l' = r
    /\ model_name' = ReadHeading(r)
    /\ UNCHANGED <<state, tables, actives, part_name, cell_type, pc, endPart>>

\* lines 197-202
DataNodes(r) ==
    /\ Fetch(r)
    /\ IsData(r)
    /\ state = StReadNodes
    /\ l' = r
    /\ IF ~NodeLineOk(r)
       THEN pc' = "raised" /\ UNCHANGED <<nodes, node_sets>>
       ELSE /\ nodes' = Store(nodes, NodeId(r), NodeCoords(r))
            /\ IF node_set_name = None
               THEN pc' = pc /\ node_sets' = node_sets
               ELSE IF node_set_name \in DOMAIN node_sets
               THEN pc' = pc /\ node_sets' = Update(node_sets, node_set_name, {NodeId(r)})
               ELSE pc' = "raised" /\ node_sets' = node_sets
    /\ UNCHANGED <<state, elems, cell_sets, surface_sets, actives, labels, endPart>>

\* lines 204-209
DataCells(r) ==
    /\ Fetch(r)
    /\ IsData(r)
    /\ state = StReadCells
    /\ l' = r
    /\ IF ~CellLineOk(r)
       THEN pc' = "raised" /\ UNCHANGED <<elems, cell_sets>>
       ELSE /\ elems' = Store(elems, CellId(r), CellConnectivity(r))
            /\ IF cell_set_name = None
               THEN pc' = pc /\ cell_sets' = cell_sets
               ELSE IF cell_set_name \in DOMAIN cell_sets
               THEN pc' = pc /\ cell_sets' = Update(cell_sets, cell_set_name, {CellId(r)})
               ELSE pc' = "raised" /\ cell_sets' = cell_sets
    /\ UNCHANGED <<state, nodes, node_sets, surface_sets, actives, labels, endPart>>

\* DataNodeSet whose except clause also resets the parse state
DataNodeSetResetsState(r) ==
    /\ Fetch(r)
    /\ IsData(r)
    /\ state = StReadNodeSet
    /\ l' = IF generate = "True" THEN r ELSE PopTrailingEmpty(r)
    /\ LET s == SetLine(generate, node_sets, node_set_name, r)
       IN /\ node_sets' = IF s.ok THEN Update(node_sets, node_set_name, s.ids)
                          ELSE node_sets
          /\ state' = IF s.ok THEN state ELSE StUnknown
    /\ UNCHANGED <<nodes, elems, cell_sets, surface_sets, actives, labels,
                   pc, endPart>>

\* lines 211-225
DataNodeSet(r) ==
    /\ Fetch(r)
    /\ IsData(r)
    /\ state = StReadNodeSet
    /\ l' = IF generate = "True" THEN r ELSE PopTrailingEmpty(r)
    /\ LET s == SetLine(generate, node_sets, node_set_name, r)
       IN node_sets' = IF s.ok THEN Update(node_sets, node_set_name, s.ids) ELSE node_sets
    /\ UNCHANGED <<state, nodes, elems, cell_sets, surface_sets, actives, labels,
                   pc, endPart>>

\* lines 227-240
DataCellSet(r) ==
    /\ Fetch(r)
    /\ IsData(r)
    /\ state = StReadCellSet
    /\ l' = IF generate = "True" THEN r ELSE PopTrailingEmpty(r)
    /\ LET s == SetLine(generate, cell_sets, cell_set_name, r)
       IN cell_sets' = IF s.ok THEN Update(cell_sets, cell_set_name, s.ids) ELSE cell_sets
    /\ UNCHANGED <<state, nodes, elems, node_sets, surface_sets, actives, labels,
                   pc, endPart>>

\* lines 242-245
DataSurfaceSet(r) ==
    /\ Fetch(r)
    /\ IsData(r)
    /\ state = StReadSurfaceSet
    /\ l' = PopTrailingEmpty(r)
    /\ surface_sets' = Update(surface_sets, surface_set_name, {PopTrailingEmpty(r)})
    /\ UNCHANGED <<state, nodes, elems, node_sets, cell_sets, actives, labels,
                   pc, endPart>>

\* DataInvalid without the raise
DataInvalidSilent(r) ==
    /\ Fetch(r)
    /\ IsData(r)
    /\ state = StInvalid
    /\ l' = r
    /\ UNCHANGED <<state, tables, actives, labels, pc, endPart>>

\* DataInvalid that warns and goes on as after an unrecognised keyword
DataInvalidWarns(r) ==
    /\ Fetch(r)
    /\ IsData(r)
    /\ state = StInvalid
    /\ l' = r
    /\ state' = StUnknown
    /\ UNCHANGED <<tables, actives, labels, pc, endPart>>

\* lines 247-248
DataInvalid(r) ==
    /\ Fetch(r)
    /\ IsData(r)
    /\ state = StInvalid
    /\ l' = r
    /\ pc' = "raised"
    /\ UNCHANGED <<state, tables, actives, labels, endPart>>

\* lines 193-248: no branch is taken in Init and Unknown
DataIgnored(r) ==
    /\ Fetch(r)
    /\ IsData(r)
    /\ state \in {StInit, StUnknown}
    /\ l' = r
    /\ UNCHANGED <<state, tables, actives, labels, pc, endPart>>

\* line 252: the stream is exhausted
Return ==
    /\ pc = "parsing"
    /\ pc' = "returned"
    /\ result' = [nodes |-> nodes, elems |-> elems,
                  node_sets |-> node_sets, cell_sets |-> cell_sets]
    /\ UNCHANGED <<rec, l, state, tables, actives, labels, nread, prevState, endPart,
                   kw, log, io>>

\* the records of each class
EmptyRecords == { r \in Records : r = <<>> }
CommentRecords == { r \in Records : IsComment(r) }
DataLines == { r \in Records : IsData(r) }
KeywordsOf(word) == { r \in Records : KeywordIs(r, word) }
HeadingKeywords == KeywordsOf(WordHeading)
PartKeywords == KeywordsOf(WordPart)
EndPartKeywords == KeywordsOf(WordEndPart)
NodeKeywords == KeywordsOf(WordNode)
ElementKeywords == KeywordsOf(WordElement)
NsetKeywords == KeywordsOf(WordNset)
ElsetKeywords == KeywordsOf(WordElset)
SurfaceKeywords == KeywordsOf(WordSurface)
OtherKeywords == { r \in Records : IsKeyword(r) /\ StrLower(r[1]) \notin KnownWords }

Next ==
    \/ \E r \in EmptyRecords : EmptyRecord(r)
    \/ \E r \in CommentRecords : Comment(r)
    \/ \E r \in HeadingKeywords : KwHeading(r)
    \/ \E r \in PartKeywords : KwPart(r)
    \/ \E r \in EndPartKeywords : KwEndPart(r)
    \/ \E r \in NodeKeywords : KwNode(r)
    \/ \E r \in ElementKeywords : KwElement(r)
    \/ \E r \in NsetKeywords : KwNset(r)
    \/ \E r \in ElsetKeywords : KwElset(r)
    \/ \E r \in SurfaceKeywords : KwSurface(r)
    \/ \E r \in OtherKeywords : KwUnknown(r)
    \/ \E r \in DataLines : DataHeading(r)
    \/ \E r \in DataLines : DataNodes(r)
    \/ \E r \in DataLines : DataCells(r)
    \/ \E r \in DataLines : DataNodeSet(r)
    \/ \E r \in DataLines : DataCellSet(r)
    \/ \E r \in DataLines : DataSurfaceSet(r)
    \/ \E r \in DataLines : DataInvalid(r)
    \/ \E r \in DataLines : DataIgnored(r)
    \/ Return

Spec == Init /\ [][Next]_vars

\* ------------------------------------------------------- the command
\* the argument lists the command is started with
ArgLists ==
    { <<>>, <<InPath>>, <<InPath, OutPath>>, <<MissingPath, OutPath>>,
      <<EmptyPath, OutPath>>, <<InPath, EmptyPath>> }

\* the keys of a dict in iteration order: the ids of the stored lines of one
\* kind, each at its first insertion
RECURSIVE KeyOrder(_, _, _)
KeyOrder(q, kind, acc) ==
    IF q = <<>> THEN acc
    ELSE LET id == IntOf(Head(q).line[1]) - 1
         IN KeyOrder(Tail(q), kind,
                     IF Head(q).kind = kind /\ id \notin SeqToSet(acc)
                     THEN Append(acc, id) ELSE acc)

\* one ofile.write of _write_XMP; "%d" is IntStr, and a coordinate is kept as
\* the float it is ("%.16e" prints the 17 digits that determine it)
FixedLine(tag) == [tag |-> tag, n |-> <<>>, coords |-> <<>>, refs |-> <<>>]
SizedLine(tag, size) == [tag |-> tag, n |-> IntStr(size), coords |-> <<>>, refs |-> <<>>]
VertexLine(v_id, v_coords) ==
    [tag |-> "vertex", n |-> IntStr(v_id),
     coords |-> SubSeq(v_coords, 1, IF Len(v_coords) < 2 THEN Len(v_coords) ELSE 2),
     refs |-> <<>>]
\* a triangle written with v0 and v2 exchanged
TriangleLineReversed(c_index, c_data) ==
    [tag |-> "triangle", n |-> IntStr(c_index), coords |-> <<>>,
     refs |-> <<IntStr(c_data[3]), IntStr(c_data[2]), IntStr(c_data[1])>>]
TriangleLine(c_index, c_data) ==
    [tag |-> "triangle", n |-> IntStr(c_index), coords |-> <<>>,
     refs |-> <<IntStr(c_data[1]), IntStr(c_data[2]), IntStr(c_data[3])>>]

\* _write_XMP: the lines written, and whether c_data[0..2] raised on the way
WriteXMP(ns, es, order) ==
    LET v_ids == KeyOrder(order, "node", <<>>)
        c_ids == KeyOrder(order, "cell", <<>>)
        short == { i \in 1..Len(c_ids) : Len(es[c_ids[i]]) < 3 }
        done == IF short = {} THEN Len(c_ids)
                ELSE (CHOOSE i \in short : \A j \in short : i <= j) - 1
    IN [raised |-> short # {},
        lines |->
            <<FixedLine("xml"), FixedLine("dolfin"), FixedLine("mesh"),
              SizedLine("vertices", Cardinality(DOMAIN ns))>>
            \o [i \in 1..Len(v_ids) |-> VertexLine(v_ids[i], ns[v_ids[i]])]
            \o <<FixedLine("/vertices"), SizedLine("cells", Cardinality(DOMAIN es))>>
            \o [i \in 1..done |-> TriangleLine(c_ids[i], es[c_ids[i]])]
            \o (IF short = {} THEN <<FixedLine("/cells"), FixedLine("/mesh"),
                                      FixedLine("/dolfin")>>
                ELSE <<>>)]

\* the command before it has run
InitCli ==
    /\ rec = NoRecord
    /\ l = NoRecord
    /\ state = StInit
    /\ nodes = EmptyDict
    /\ elems = EmptyDict
    /\ node_sets = EmptyDict
    /\ cell_sets = EmptyDict
    /\ surface_sets = EmptyDict
    /\ node_set_name = None
    /\ cell_set_name = Unbound
    /\ surface_set_name = Unbound
    /\ generate = "Unbound"
    /\ model_name = Unbound
    /\ part_name = Unbound
    /\ cell_type = Unbound
    /\ pc = "start"
    /\ result = Unbound
    /\ nread = 0
    /\ prevState = StInit
    /\ endPart = "no"
    /\ kw = NoRecord
    /\ log = <<>>
    /\ names = <<>>
    /\ disk \in {NoFile, OldFile}
    /\ outcome = OutNone
    /\ afterParseError = FALSE

\* what the command does up to the first record, by its arguments
Ends(how, out) == pc' = how /\ outcome' = out /\ disk' = disk

\* Convert with the output opened "w+" before os.path.isfile is asked
ConvertOpensFirst(args) ==
    /\ pc = "start"
    /\ names' = args
    /\ IF args = <<>> THEN Ends("done", OutHelp)
       ELSE IF Len(args) < 2 THEN Ends("raised", ErrIndex)
       ELSE IF args[1] = EmptyPath THEN Ends("done", OutNoInput)
       ELSE IF args[2] = EmptyPath THEN Ends("done", OutNoOutput)
       ELSE IF args[1] \notin InputFiles THEN Ends("done", OutNotFound)
       ELSE IF disk.exists THEN pc' = "done" /\ outcome' = OutExists /\ disk' = NewFile
       ELSE pc' = "parsing" /\ outcome' = OutNone /\ disk' = NewFile
    /\ UNCHANGED <<rec, l, state, tables, actives, labels, result, nread, prevState,
                   endPart, kw, log, afterParseError>>

\* Convert with the output created only when it is written
ConvertLazyCreate(args) ==
    /\ pc = "start"
    /\ names' = args
    /\ IF args = <<>> THEN Ends("done", OutHelp)
       ELSE IF Len(args) < 2 THEN Ends("raised", ErrIndex)
       ELSE IF args[1] = EmptyPath THEN Ends("done", OutNoInput)
       ELSE IF args[2] = EmptyPath THEN Ends("done", OutNoOutput)
       ELSE IF args[1] \notin InputFiles THEN Ends("done", OutNotFound)
       ELSE IF disk.exists THEN Ends("done", OutExists)
       ELSE pc' = "parsing" /\ outcome' = OutNone /\ disk' = disk
    /\ UNCHANGED <<rec, l, state, tables, actives, labels, result, nread, prevState,
                   endPart, kw, log, afterParseError>>

\* command_line_runner, convert_to_XML and _inp_to_XML up to line 300
Convert(args) ==
    /\ pc = "start"
    /\ names' = args
    /\ IF args = <<>> THEN Ends("done", OutHelp)
       ELSE IF Len(args) < 2 THEN Ends("raised", ErrIndex)
       ELSE IF args[1] = EmptyPath THEN Ends("done", OutNoInput)
       ELSE IF args[2] = EmptyPath THEN Ends("done", OutNoOutput)
       ELSE IF args[1] \notin InputFiles THEN Ends("done", OutNotFound)
       ELSE IF disk.exists THEN Ends("done", OutExists)
       ELSE pc' = "parsing" /\ outcome' = OutNone /\ disk' = NewFile
    /\ UNCHANGED <<rec, l, state, tables, actives, labels, result, nread, prevState,
                   endPart, kw, log, afterParseError>>

\* lines 309-317: the model is written, then fe.Mesh reads the file, which
\* succeeds (ok) or raises
WriteAndTest(ok) ==
    /\ pc = "returned"
    /\ LET out == WriteXMP(result.nodes, result.elems, log)
       IN /\ disk' = [exists |-> TRUE, lines |-> out.lines]
          /\ IF out.raised THEN pc' = "raised" /\ outcome' = ErrIndex
             ELSE IF ok THEN pc' = "done" /\ outcome' = OutTested
             ELSE pc' = "raised" /\ outcome' = ErrMesh
    /\ UNCHANGED <<rec, l, state, tables, actives, labels, result, nread, prevState,
                   endPart, kw, log, names, afterParseError>>

\* the command has ended, by a return or by an exception
Ended == pc \in {"done", "raised"}
\* it ended by an exception of _read_input
ParseError == pc = "raised" /\ outcome = OutNone

\* the command is started again: fresh locals, the same file system
Restart ==
    /\ Ended
    /\ afterParseError' = ParseError
    /\ rec' = NoRecord
    /\ l' = NoRecord
    /\ state' = StInit
    /\ nodes' = EmptyDict
    /\ elems' = EmptyDict
    /\ node_sets' = EmptyDict
    /\ cell_sets' = EmptyDict
    /\ surface_sets' = EmptyDict
    /\ node_set_name' = None
    /\ cell_set_name' = Unbound
    /\ surface_set_name' = Unbound
    /\ generate' = "Unbound"
    /\ model_name' = Unbound
    /\ part_name' = Unbound
    /\ cell_type' = Unbound
    /\ pc' = "start"
    /\ result' = Unbound
    /\ nread' = 0
    /\ prevState' = StInit
    /\ endPart' = "no"
    /\ kw' = NoRecord
    /\ log' = <<>>
    /\ names' = <<>>
    /\ outcome' = OutNone
    /\ disk' = disk

NextCli ==
    \/ Next
    \/ \E args \in ArgLists : Convert(args)
    \/ \E ok \in BOOLEAN : WriteAndTest(ok)
    \/ Restart

SpecCli == InitCli /\ [][NextCli]_vars

TypeOK ==
    /\ state \in State
    /\ prevState \in State
    /\ pc \in {"start", "parsing", "returned", "raised", "done"}
    /\ names \in ArgLists
    /\ disk.exists \in BOOLEAN
    /\ outcome \in {OutNone, OutHelp, OutNoInput, OutNoOutput, OutNotFound, OutExists,
                    OutTested, ErrIndex, ErrMesh}
    /\ afterParseError \in BOOLEAN
    /\ generate \in {"Unbound", "None", "True", "False"}
    /\ nread \in 0..MaxRecords
    /\ endPart \in {"no", "last", "earlier"}


\* ======================================================= properties

\* a step that consumed a record: rec' is the record, the unprimed variables
\* are the parser before it
RecordStep == nread' = nread + 1
DataStep == RecordStep /\ IsData(rec')
Consumed == nread > 0

C3_PartKeepsState ==
    (Consumed /\ KeywordIs(rec, WordPart)) => state = prevState

\* C3 amended: a *part keyword record sets the parse state to Unknown,
\* whatever the state before it.
C3_PartSetsUnknown ==
    (Consumed /\ KeywordIs(rec, WordPart)) => state = StUnknown

\* a well-formed *part record read in state ReadNodes
C3_Witness ==
    /\ Consumed /\ KeywordIs(rec, WordPart) /\ prevState = StReadNodes
    /\ state = StUnknown /\ pc = "parsing" /\ part_name = <<"P">>

\* ------------------------------------------------------------------- C4
\* C4: a data-line record leaves the parse state, the generate flag and the
\* active set names unchanged, also when the line is skipped for a parse
\* error in a set state.
C4_DataKeepsState ==
    [][DataStep => UNCHANGED <<state, generate, node_set_name, cell_set_name,
                               surface_set_name>>]_vars

\* a node-set data line that was skipped for a parse error
C4_Witness ==
    /\ Consumed /\ IsData(rec) /\ pc = "parsing"
    /\ prevState = StReadNodeSet /\ state = StReadNodeSet
    /\ ~SetLine(generate, node_sets, node_set_name, rec).ok

\* ------------------------------------------------------------------- C5
\* C5: whenever a data line adds membership to a named set, the active set
\* name is already a key of the corresponding set table.
C5_ActiveSetExists ==
    [][(DataStep /\ pc = "parsing") =>
         /\ (state = StReadNodes /\ NodeLineOk(rec') /\ node_set_name # None)
                => node_set_name \in DOMAIN node_sets
         /\ (state = StReadCells /\ CellLineOk(rec') /\ cell_set_name # None)
                => cell_set_name \in DOMAIN cell_sets
         /\ state = StReadNodeSet => node_set_name \in DOMAIN node_sets
         /\ state = StReadCellSet => cell_set_name \in DOMAIN cell_sets
         /\ state = StReadSurfaceSet => surface_set_name \in DOMAIN surface_sets]_vars

\* ------------------------------------------------------------------- C6
\* C6: on successful completion the returned model contains every node, every
\* element and every declared node-set, element-set and surface-set with its
\* members.
C6_ReturnsWholeModel ==
    pc = "returned" =>
        /\ result.nodes = nodes
        /\ result.elems = elems
        /\ \A n \in DOMAIN node_sets :
              n \in DOMAIN result.node_sets /\ result.node_sets[n] = node_sets[n]
        /\ \A n \in DOMAIN cell_sets :
              n \in DOMAIN result.cell_sets /\ result.cell_sets[n] = cell_sets[n]
        /\ \A n \in DOMAIN surface_sets :
              /\ "surface_sets" \in DOMAIN result
              /\ n \in DOMAIN result.surface_sets
              /\ result.surface_sets[n] = surface_sets[n]


\* ------------------------------------------------------------------- C7
\* the integer rows that are well-formed generate lines
GenerateRows == { row \in IntRows : Len(row) = 3 /\ row[3] # 0 }

Min(a, b) == IF a < b THEN a ELSE b
Max(a, b) == IF a > b THEN a ELSE b

\* start-1, start-1+increment, ... as far as they lie before end-1, and end-1
GenerateExpected(row) ==
    LET first == row[1] - 1
        last == row[2] - 1
        inc == row[3]
    IN { x \in Min(first, last)..Max(first, last) :
            /\ x # last
            /\ \E k \in 0..(Max(first, last) - Min(first, last)) : x = first + k * inc }
       \cup {last}

\* C7: in generate mode a data line (start, end, increment) adds to the
\* active node-set or element-set exactly the ids start-1, start-1+increment,
\* ... that lie before end-1, together with end-1, unioned into the content
\* the set already has.
C7_GenerateInclusive ==
    [][\A row \in GenerateRows :
         (DataStep /\ rec' = IntRow(row) /\ generate = "True") =>
            /\ state = StReadNodeSet =>
                  /\ node_sets' = [node_sets EXCEPT ![node_set_name] =
                                      @ \cup GenerateExpected(row)]
                  /\ (row[2] - 1) \in node_sets'[node_set_name]
            /\ state = StReadCellSet =>
                  /\ cell_sets' = [cell_sets EXCEPT ![cell_set_name] =
                                      @ \cup GenerateExpected(row)]
                  /\ (row[2] - 1) \in cell_sets'[cell_set_name]]_vars

\* the line 1,10,2 read in generate mode into a node-set that held {0, 1}
C7_Witness ==
    /\ Consumed /\ rec = IntRow(<<1, 10, 2>>)
    /\ prevState = StReadNodeSet /\ generate = "True" /\ nread = 3
    /\ node_sets[node_set_name] = {0, 1, 2, 4, 6, 8, 9}

\* ------------------------------------------------------------------- C8
\* a set data line that cannot be parsed: in generate mode a field count
\* other than 3, a non-integer field or a zero increment; in explicit mode a
\* non-integer field after the trailing empty field is dropped
Unparsable(gen, r) ==
    IF gen = "True"
    THEN \/ Len(r) # 3
         \/ \E i \in 1..Len(r) : ~IsInt(r[i])
         \/ IntOf(r[3]) = 0
    ELSE \E i \in 1..Len(PopTrailingEmpty(r)) : ~IsInt(PopTrailingEmpty(r)[i])

\* C8: a set data line in ReadNodeSet or ReadCellSet that cannot be parsed is
\* skipped as a whole: no set, node or element changes, the parse state is
\* unchanged and the parse goes on.
C8_BadSetLineSkipped ==
    [][(DataStep /\ state \in {StReadNodeSet, StReadCellSet}
                 /\ Unparsable(generate, rec')) =>
          /\ UNCHANGED <<nodes, elems, node_sets, cell_sets, surface_sets, state>>
          /\ pc' = "parsing"]_vars

\* the line 1,x read in explicit mode of an element-set, nothing added
C8_Witness ==
    /\ Consumed /\ rec = <<IntStr(1), WordX>>
    /\ prevState = StReadCellSet /\ state = StReadCellSet /\ generate = "None"
    /\ cell_sets[cell_set_name] = {} /\ pc = "parsing"

\* ------------------------------------------------------------------- C9
\* C9: a comment record leaves the parse state, the generate flag, the active
\* set names and all nodes, elements and sets unchanged, and raises no error,
\* in every parse state.
C9_CommentTransparent ==
    [][(RecordStep /\ IsComment(rec')) =>
          /\ UNCHANGED <<state, generate, node_set_name, cell_set_name,
                         surface_set_name, nodes, elems, node_sets, cell_sets,
                         surface_sets>>
          /\ pc' = "parsing"]_vars

\* a comment read after a node-set was filled: the set is still the active,
\* filled set
C9_Witness ==
    /\ Consumed /\ IsComment(rec) /\ prevState = StReadNodeSet
    /\ state = StReadNodeSet /\ node_sets[node_set_name] # {} /\ pc = "parsing"

\* ------------------------------------------------------------------ C10
\* C10: every stored id is the 1-based input id minus one: a node line with
\* id i stores node i-1, an element line with id e and references j1..jk
\* stores element e-1 with connectivity [j1-1, ..., jk-1], and the ids added
\* to a node-set or element-set are the input ids minus 1.
C10_ZeroBased ==
    [][\A row \in IntRows :
         (DataStep /\ rec' = IntRow(row)) =>
            /\ state = StReadNodes =>
                  /\ DOMAIN nodes' = DOMAIN nodes \cup {row[1] - 1}
                  /\ node_set_name # None =>
                        node_sets'[node_set_name]
                           = node_sets[node_set_name] \cup {row[1] - 1}
            /\ state = StReadCells =>
                  /\ DOMAIN elems' = DOMAIN elems \cup {row[1] - 1}
                  /\ elems'[row[1] - 1] = [i \in 1..(Len(row) - 1) |-> row[i + 1] - 1]
                  /\ cell_set_name \in DOMAIN cell_sets =>
                        cell_sets'[cell_set_name]
                           = cell_sets[cell_set_name] \cup {row[1] - 1}
            /\ (state = StReadNodeSet /\ generate # "True") =>
                  node_sets'[node_set_name]
                     = node_sets[node_set_name] \cup { row[i] - 1 : i \in 1..Len(row) }
            /\ (state = StReadCellSet /\ generate # "True") =>
                  cell_sets'[cell_set_name]
                     = cell_sets[cell_set_name] \cup { row[i] - 1 : i \in 1..Len(row) }
            /\ (state = StReadNodeSet /\ generate = "True" /\ row \in GenerateRows) =>
                  /\ (row[2] - 1) \in node_sets'[node_set_name]
                  /\ node_sets'[node_set_name] \ node_sets[node_set_name]
                        \subseteq GenerateExpected(row)
            /\ (state = StReadCellSet /\ generate = "True" /\ row \in GenerateRows) =>
                  /\ (row[2] - 1) \in cell_sets'[cell_set_name]
                  /\ cell_sets'[cell_set_name] \ cell_sets[cell_set_name]
                        \subseteq GenerateExpected(row)]_vars

\* the element line 2,3,1,2 stored as element 1 with connectivity [2, 0, 1]
\* and added to the active element-set
C10_Witness ==
    /\ Consumed /\ rec = IntRow(<<2, 3, 1, 2>>) /\ prevState = StReadCells
    /\ 1 \in DOMAIN elems /\ elems[1] = <<2, 0, 1>>
    /\ cell_set_name = SetB /\ 1 \in cell_sets[SetB]


\* ------------------------------------------------------------------ C11
\* t1 holds every set of t0 with at least its members, and a set that is new
\* in t1 is empty
Grows(t0, t1) ==
    /\ \A n \in DOMAIN t0 : n \in DOMAIN t1 /\ t0[n] \subseteq t1[n]
    /\ \A n \in DOMAIN t1 \ DOMAIN t0 : t1[n] = {}

\* C11: named sets are created empty at their first declaration and only
\* grow: no record removes an id or a set, a keyword that re-declares a set
\* keeps its content, only a keyword record creates a set, and an explicit
\* line whose ids are all members already leaves the set unchanged.
C11_SetsOnlyGrow ==
    [][/\ Grows(node_sets, node_sets')
       /\ Grows(cell_sets, cell_sets')
       /\ Grows(surface_sets, surface_sets')
       /\ (RecordStep /\ IsKeyword(rec')) =>
             /\ \A n \in DOMAIN node_sets : node_sets'[n] = node_sets[n]
             /\ \A n \in DOMAIN cell_sets : cell_sets'[n] = cell_sets[n]
             /\ \A n \in DOMAIN surface_sets : surface_sets'[n] = surface_sets[n]
       /\ (DOMAIN node_sets' # DOMAIN node_sets \/ DOMAIN cell_sets' # DOMAIN cell_sets
             \/ DOMAIN surface_sets' # DOMAIN surface_sets)
             => (RecordStep /\ IsKeyword(rec'))
       /\ \A row \in IntRows :
            (DataStep /\ rec' = IntRow(row) /\ state = StReadNodeSet
               /\ generate # "True"
               /\ { row[i] - 1 : i \in 1..Len(row) } \subseteq node_sets[node_set_name])
              => node_sets' = node_sets]_vars

\* a *nset keyword that re-declares a set which already has members
C11_Witness ==
    /\ Consumed /\ KeywordIs(rec, WordNset) /\ state = StReadNodeSet
    /\ node_set_name = SetA /\ node_sets[SetA] = {0, 1, 2} /\ nread = 3


\* ------------------------------------------------------------------ C12
\* the positions of the log that declare id as a node or as an element
Declaring(kind, id) ==
    { i \in 1..Len(log) : log[i].kind = kind /\ IntOf(log[i].line[1]) - 1 = id }
DeclaredIds(kind) ==
    { IntOf(log[i].line[1]) - 1 : i \in { j \in 1..Len(log) : log[j].kind = kind } }
\* the last line that declared id
LastLine(kind, id) ==
    log[CHOOSE i \in Declaring(kind, id) : \A j \in Declaring(kind, id) : j <= i].line

\* C12: after any record sequence the model holds for each declared node id
\* (element id) exactly one entry, with the coordinates (connectivity) of the
\* last data line that declared the id, and as many entries as distinct ids
\* were declared.
C12_LastWriteWins ==
    /\ DOMAIN nodes = DeclaredIds("node")
    /\ DOMAIN elems = DeclaredIds("cell")
    /\ Cardinality(DOMAIN nodes) = Cardinality(DeclaredIds("node"))
    /\ Cardinality(DOMAIN elems) = Cardinality(DeclaredIds("cell"))
    /\ \A id \in DOMAIN nodes :
          LET last == LastLine("node", id)
          IN nodes[id] = [i \in 1..(Len(last) - 1) |-> FloatOf(last[i + 1])]
    /\ \A id \in DOMAIN elems :
          LET last == LastLine("cell", id)
          IN elems[id] = [i \in 1..(Len(last) - 1) |-> IntOf(last[i + 1]) - 1]

\* node 1 declared as 1,2,3 and then as 1,10,2: one node, coordinates (10, 2)
C12_Witness ==
    /\ log = << [kind |-> "node", line |-> IntRow(<<1, 2, 3>>)],
                [kind |-> "node", line |-> IntRow(<<1, 10, 2>>)] >>
    /\ DOMAIN nodes = {0}
    /\ nodes[0] = << <<10, 0>>, <<2, 0>> >>


\* ------------------------------------------------------------------ C16
\* C16: a data line read while the state is Invalid, that is with *end part
\* as the most recent keyword record, is a fatal error: the parse stops at
\* that record, no later record is processed and no model is returned.
C16_InvalidDataFatal ==
    [][/\ (DataStep /\ KeywordIs(kw, WordEndPart)) =>
             (state = StInvalid /\ pc' = "raised" /\ result' = Unbound)
       /\ (DataStep /\ state = StInvalid) => pc' = "raised"
       /\ pc = "raised" => (nread' = nread /\ pc' = "raised" /\ result' = result)]_vars

\* the line 1,2,3 read right after *end part: parse aborted at record 2
C16_Witness ==
    /\ nread = 2 /\ rec = IntRow(<<1, 2, 3>>) /\ KeywordIs(kw, WordEndPart)
    /\ pc = "raised" /\ result = Unbound /\ nodes = EmptyDict


\* ------------------------------------------------------------------ C17
\* the first fields the parser recognises, in lower case
RecognisedWords ==
    { <<"*", "h", "e", "a", "d", "i", "n", "g">>, <<"*", "p", "a", "r", "t">>,
      <<"*", "e", "n", "d", " ", "p", "a", "r", "t">>, <<"*", "n", "o", "d", "e">>,
      <<"*", "e", "l", "e", "m", "e", "n", "t">>, <<"*", "n", "s", "e", "t">>,
      <<"*", "e", "l", "s", "e", "t">>, <<"*", "s", "u", "r", "f", "a", "c", "e">> }

\* C17: a keyword record (first field with one leading "*", comments being
\* classified before) whose first field is not a recognised keyword moves the
\* parser to Unknown, and every data line read in state Init or Unknown is
\* ignored: nodes, elements and all sets are unchanged, the state stays and
\* no error is raised.
C17_UnknownIgnoresData ==
    [][/\ (RecordStep /\ IsKeyword(rec') /\ StrLower(rec'[1]) \notin RecognisedWords)
             => (state' = StUnknown /\ pc' = "parsing" /\ UNCHANGED tables)
       /\ (DataStep /\ state \in {StInit, StUnknown})
             => (pc' = "parsing" /\ UNCHANGED <<tables, state, actives>>)]_vars

\* the line 1,2,3 read after the unrecognised keyword *Step and ignored
C17_Witness ==
    /\ nread = 3 /\ rec = IntRow(<<1, 2, 3>>) /\ kw = <<KwStepField>>
    /\ prevState = StUnknown /\ state = StUnknown /\ pc = "parsing"
    /\ nodes = EmptyDict /\ elems = EmptyDict /\ log = <<>>


\* ------------------------------------------------------------------ C18
\* the names given by the nset=<name> options among the trailing fields of r
NsetOptions(r) ==
    { StrSplit(r[i], "=")[2] :
        i \in { j \in 2..Len(r) : /\ Len(StrSplit(r[j], "=")) = 2
                                  /\ StrLower(StrSplit(r[j], "=")[1]) = KeyNset } }

\* C18: while the nodes of a *node record are read, a node-set named by an
\* nset=<name> option among the trailing fields of that record, whatever
\* their number, exists and is the active set, and every node declared has
\* been added to it; without the option no set is active.
C18_NodeNsetOption ==
    (state = StReadNodes /\ pc = "parsing") =>
        IF NsetOptions(kw) # {}
        THEN /\ node_set_name \in NsetOptions(kw)
             /\ node_set_name \in DOMAIN node_sets
             /\ (IsData(rec) /\ NodeLineOk(rec)) => NodeId(rec) \in node_sets[node_set_name]
        ELSE node_set_name = None


\* ------------------------------------------------------------------ C19
\* what each set keyword record of the input declares
SetDeclarations ==
    (<<KwNsetField, OptNsetA>> :> [name |-> SetA, generate |-> FALSE])
    @@ (<<KwNsetField, OptNsetA, OptGenerate>> :> [name |-> SetA, generate |-> TRUE])
    @@ (<<KwElsetField, OptElsetB>> :> [name |-> SetB, generate |-> FALSE])
    @@ (<<KwElsetField, OptElsetB, OptGenerate>> :> [name |-> SetB, generate |-> TRUE])

\* what the line 1,10,2 adds as a generate line and as an explicit list
Line1_10_2(gen) == IF gen THEN {0, 2, 4, 6, 8, 9} ELSE {0, 9, 1}

\* C19: a data line in ReadNodeSet or ReadCellSet is interpreted with the
\* generate flag and the set name of the most recent keyword record, which is
\* a *nset or *elset record: a flag or name set by an earlier keyword does not
\* carry over.
C19_SetSectionUsesOwnDeclaration ==
    [][(DataStep /\ state \in {StReadNodeSet, StReadCellSet}) =>
          /\ kw \in DOMAIN SetDeclarations
          /\ state = StReadNodeSet =>
                /\ KeywordIs(kw, WordNset)
                /\ node_set_name = SetDeclarations[kw].name
                /\ (generate = "True") = SetDeclarations[kw].generate
                /\ rec' = IntRow(<<1, 10, 2>>) =>
                      node_sets' = [node_sets EXCEPT ![SetDeclarations[kw].name] =
                                       @ \cup Line1_10_2(SetDeclarations[kw].generate)]
          /\ state = StReadCellSet =>
                /\ KeywordIs(kw, WordElset)
                /\ cell_set_name = SetDeclarations[kw].name
                /\ (generate = "True") = SetDeclarations[kw].generate
                /\ rec' = IntRow(<<1, 10, 2>>) =>
                      cell_sets' = [cell_sets EXCEPT ![SetDeclarations[kw].name] =
                                       @ \cup Line1_10_2(SetDeclarations[kw].generate)]]_vars

\* the line 1,10,2 read as an explicit list after a plain *nset that follows
\* an earlier set keyword for element-set B
C19_Witness ==
    /\ nread = 3 /\ rec = IntRow(<<1, 10, 2>>) /\ kw = <<KwNsetField, OptNsetA>>
    /\ prevState = StReadNodeSet /\ DOMAIN cell_sets = {SetB}
    /\ cell_set_name = SetB /\ node_sets[SetA] = {0, 1, 9}


\* ------------------------------------------------------------------ C13
\* the step that starts the command with its arguments
ConvertStep == pc = "start" /\ pc' # "start"

\* C13: started with fewer than two positional arguments (none, or the input
\* path alone) the command prints the help and ends without raising and
\* without opening or creating a file.
C13_FewArgumentsPrintHelp ==
    [][(ConvertStep /\ Len(names') < 2) =>
          /\ pc' = "done"
          /\ outcome' = OutHelp
          /\ disk' = disk]_vars

\* ------------------------------------------------------------------ C14
\* a conversion is started on an output path that exists
ToExisting == ConvertStep /\ disk.exists /\ Len(names') >= 2 /\ names'[2] = OutPath

\* what lines 285-294 return before the output path is looked at
InputOutcome(input_name, otherwise) ==
    IF input_name = EmptyPath THEN OutNoInput
    ELSE IF input_name \notin InputFiles THEN OutNotFound
    ELSE otherwise

\* C14 as stated: when the output path exists at the start of a conversion the
\* run ends with the "already exists" outcome, parses no record and leaves the
\* existing file as it is.
C14_ExistingOutputRefused ==
    [][ToExisting =>
          /\ pc' = "done"
          /\ outcome' = OutExists
          /\ nread' = 0
          /\ disk' = disk]_vars

\* C14 amended: when the output path exists at the start of a conversion the
\* run ends having parsed no record and with the existing file as it is; its
\* outcome is "already exists" when the input path is not empty and the input
\* file can be opened, 'no input name' when the input path is empty and
\* not-found when the input file is missing.
C14_ExistingOutputUntouched ==
    [][ToExisting =>
          /\ pc' = "done"
          /\ outcome' = InputOutcome(names'[1], OutExists)
          /\ nread' = 0
          /\ disk' = disk]_vars

\* a first conversion refused because the old file is there
C14_Witness ==
    /\ pc = "done" /\ outcome = OutExists /\ names = <<InPath, OutPath>>
    /\ disk = OldFile /\ nread = 0 /\ ~afterParseError

\* ------------------------------------------------------------------ C15
\* the step that serializes the returned model
WriteStep == pc = "returned" /\ pc' # "returned"
LinesOf(doc, tag) == { i \in 1..Len(doc) : doc[i].tag = tag }
DocumentTags ==
    {"xml", "dolfin", "mesh", "vertices", "vertex", "/vertices", "cells", "triangle",
     "/cells", "/mesh", "/dolfin"}

\* doc has one vertex entry per node of ns and one triangle entry per element
\* of es, sizes that count the entries, ids and three references as stored,
\* and nothing else
DocumentOf(ns, es, doc) ==
    /\ { doc[i].n : i \in LinesOf(doc, "vertex") } = { IntStr(id) : id \in DeclaredIds("node") }
    /\ DeclaredIds("node") = DOMAIN ns
    /\ Cardinality(LinesOf(doc, "vertex")) = Cardinality(DOMAIN ns)
    /\ Cardinality(LinesOf(doc, "vertices")) = 1
    /\ \A i \in LinesOf(doc, "vertices") :
          doc[i].n = IntStr(Cardinality(LinesOf(doc, "vertex")))
    /\ { doc[i].n : i \in LinesOf(doc, "triangle") } = { IntStr(id) : id \in DeclaredIds("cell") }
    /\ DeclaredIds("cell") = DOMAIN es
    /\ Cardinality(LinesOf(doc, "triangle")) = Cardinality(DOMAIN es)
    /\ Cardinality(LinesOf(doc, "cells")) = 1
    /\ \A i \in LinesOf(doc, "cells") :
          doc[i].n = IntStr(Cardinality(LinesOf(doc, "triangle")))
    /\ \A i \in LinesOf(doc, "triangle") :
          \E id \in DOMAIN es :
             /\ doc[i].n = IntStr(id)
             /\ Len(es[id]) = 3
             /\ doc[i].refs = <<IntStr(es[id][1]), IntStr(es[id][2]), IntStr(es[id][3])>>
    /\ \A i \in 1..Len(doc) : doc[i].tag \in DocumentTags
    /\ doc[Len(doc)] = FixedLine("/dolfin")

\* C15 as stated: for every model the parser returns the serializer writes one
\* vertex entry per node and one triangle entry per element, sizes equal to the
\* numbers of entries, zero-based ids, the three references of each cell in
\* stored order, and no named set.
C15_OneEntryPerNodeAndElement ==
    [][WriteStep =>
          /\ outcome' # ErrIndex
          /\ DocumentOf(result.nodes, result.elems, disk'.lines)]_vars

\* C15 amended: that holds for every returned model whose elements have exactly
\* three connectivity references each; when an element has fewer than three the
\* serializer raises an index error and leaves the document unfinished.
C15_TrianglesSerialized ==
    [][WriteStep =>
          IF \A id \in DOMAIN result.elems : Len(result.elems[id]) = 3
          THEN /\ outcome' # ErrIndex
               /\ DocumentOf(result.nodes, result.elems, disk'.lines)
          ELSE (\E id \in DOMAIN result.elems : Len(result.elems[id]) < 3) =>
                  /\ pc' = "raised"
                  /\ outcome' = ErrIndex
                  /\ LinesOf(disk'.lines, "/dolfin") = {}]_vars

\* the element line 2,3,1,2 written as triangle 1 with v0=2 v1=0 v2=1
C15_Witness ==
    /\ pc = "done" /\ outcome = OutTested
    /\ result.elems = (1 :> <<2, 0, 1>>)
    /\ Len(disk.lines) = 10
    /\ disk.lines[6] = SizedLine("cells", 1)
    /\ disk.lines[7] = TriangleLine(1, <<2, 0, 1>>)

\* ------------------------------------------------------------------ C20
\* a conversion is started on the output path of one that ended in a parse error
AgainAfterParseError ==
    ConvertStep /\ afterParseError /\ Len(names') >= 2 /\ names'[2] = OutPath

\* the output file exists, empty, when the first record is parsed, and it
\* exists while records are parsed and after a parse error
CreatedBeforeParsing ==
    /\ (pc = "parsing" /\ nread = 0) => disk = NewFile
    /\ (pc = "parsing" \/ ParseError) => disk = NewFile

\* C20 as stated: the output file is created empty before the first record is
\* parsed, so it exists after a parse error, and a second conversion with the
\* same output path ends with "already exists" without parsing a record,
\* whatever its input.
C20_SecondRunAlreadyExists ==
    [][/\ CreatedBeforeParsing'
       /\ AgainAfterParseError =>
             /\ disk.exists
             /\ pc' = "done"
             /\ outcome' = OutExists
             /\ nread' = 0]_vars

\* C20 amended: ... a second conversion with the same output path parses no
\* record whatever its input, and ends with "already exists" when its input
\* path is not empty and its input file can be opened ('no input name' and
\* not-found otherwise).
C20_SecondRunNeverParses ==
    [][/\ CreatedBeforeParsing'
       /\ AgainAfterParseError =>
             /\ disk.exists
             /\ pc' = "done"
             /\ outcome' = InputOutcome(names'[1], OutExists)
             /\ nread' = 0
             /\ disk' = disk]_vars

\* the second conversion refused because of the empty file the first one left
C20_Witness ==
    /\ pc = "done" /\ outcome = OutExists /\ names = <<InPath, OutPath>>
    /\ afterParseError /\ disk = NewFile /\ nread = 0

====
